---- MODULE Spec2Model ----
(***************************************************************************)
(* A model of the iz-cpm CP/M 2.2 emulator core:                           *)
(*   - the execution state (src/src/state.rs): stack, fetch and register   *)
(*     access primitives with the IX/IY addressing context;                *)
(*   - the console adapter (src/src/console_windows.rs);                   *)
(*   - the loader and the trap dispatch loop (src/src/main.rs).            *)
(* Addresses and register values keep their 16-bit and 8-bit widths.       *)
(* Guest memory is a sparse map: the bytes poked so far, over a background *)
(* made of the loaded binary image and of zeroes.                          *)
(***************************************************************************)
EXTENDS Integers, Sequences, FiniteSets, TLC

VARIABLES
    reg,            \* Registers: the 8-bit register cells, by name
    sp,             \* Registers: the stack pointer
    pc,             \* Registers: the program counter
    mem,            \* guest memory: address -> byte, for the addresses poked
    binary,         \* the image the loader placed: [address, size, fill]
    halted,         \* State.halted / cpu.is_halted()
    index,          \* State.index: "HL", "IX" or "IY"
    displacement,   \* State.displacement: -128..127
    last,           \* the last operation performed and what it returned
    saved,          \* the H/L cells as they were when the context left HL
    steps,          \* operations performed so far
    next_char,      \* Console.next_char: <<>> (None) or <<byte>> (Some)
    queue,          \* the host's pending input events
    consumed,       \* every event the console took from the host queue
    returned,       \* every byte read() returned, in order
    cpc,            \* where the console caller is: "idle", "status", "read"
    arrived,        \* how many host events have arrived
    raw_mode,       \* the terminal's raw input mode
    phase,          \* main: "start", "loaded", "params", "run" or an end
    file,           \* main: the CMD argument, <<>> or <<[size, fill]>>
    params,         \* main: the ARGS argument, <<>> or <<bytes>>
    trace,          \* main loop: the stages the latest iteration evaluated
    served,         \* main loop: the handlers that acted in that iteration
    pc_before,      \* main loop: the program counter before the iteration
    pc_seen         \* main loop: the local pc, read after the instruction

vars == <<reg, sp, pc, mem, binary, halted, index, displacement, last, saved,
          steps, next_char, queue, consumed, returned, cpc, arrived, raw_mode,
          phase, file, params, trace, served, pc_before, pc_seen>>

stateVars == <<reg, sp, pc, mem, binary, halted, index, displacement>>
consoleVars == <<next_char, queue, consumed, returned, cpc, arrived, raw_mode>>
mainVars == <<phase, file, params, trace, served, pc_before, pc_seen>>

(***************************************************************************)
(* Bounds of the model.                                                    *)
(***************************************************************************)
MaxOps == 3         \* State operations in one behaviour
MaxEvents == 3      \* host input events arriving in one behaviour
MaxSteps == 3       \* iterations of the dispatch loop in one behaviour

(***************************************************************************)
(* Fixed-width arithmetic.                                                 *)
(***************************************************************************)
\* u16::wrapping_add(a, 1), wrapping_sub and every "as u16"
Wrap16(x) == x % 65536

\* "as u8" of a wider unsigned value
AsU8(x) == x % 256

\* "as i16" of a u16
AsI16(u) == IF u >= 32768 THEN u - 65536 ELSE u

\* i16::wrapping_add
WrappingAddI16(a, b) == ((a + b + 32768) % 65536) - 32768

\* "as u16" of an i16
AsU16(i) == IF i < 0 THEN i + 65536 ELSE i

(***************************************************************************)
(* Option<T>: <<>> is None, <<x>> is Some(x).                              *)
(***************************************************************************)
None == <<>>
Some(x) == <<x>>

(***************************************************************************)
(* Guest memory (the Memory trait's peek and poke).                        *)
(***************************************************************************)
\* byte i of an image of the given fill: position-dependent unless fill = 0
ImageByte(fill, i) == IF fill = 0 THEN 0 ELSE (fill + i) % 256

\* the byte at address a before any poke: the loaded image, else zero
Background(b, a) ==
    IF a >= b.address /\ a < b.address + b.size
    THEN ImageByte(b.fill, a - b.address)
    ELSE 0

PeekIn(m, b, a) == IF a \in DOMAIN m THEN m[a] ELSE Background(b, a)

Peek(a) == PeekIn(mem, binary, a)

Poke(m, a, v) == [x \in (DOMAIN m) \cup {a} |-> IF x = a THEN v ELSE m[x]]

NoBinary == [address |-> 0, size |-> 0, fill |-> 0]

(***************************************************************************)
(* The register file (Registers: get8, set8, get16, set16).                *)
(***************************************************************************)
Reg8 == {"A", "F", "B", "C", "D", "E", "H", "L", "IXH", "IXL", "IYH", "IYL"}
Reg16 == {"AF", "BC", "DE", "HL", "IX", "IY", "SP"}

High(rr) == CASE rr = "AF" -> "A" [] rr = "BC" -> "B" [] rr = "DE" -> "D"
              [] rr = "HL" -> "H" [] rr = "IX" -> "IXH" [] rr = "IY" -> "IYH"

Low(rr) == CASE rr = "AF" -> "F" [] rr = "BC" -> "C" [] rr = "DE" -> "E"
             [] rr = "HL" -> "L" [] rr = "IX" -> "IXL" [] rr = "IY" -> "IYL"

Get8(r, name) == r[name]

Set8(r, name, v) == [r EXCEPT ![name] = v]

Get16(r, s, rr) == IF rr = "SP" THEN s ELSE r[High(rr)] * 256 + r[Low(rr)]

\* the 8-bit cells after set16 (unchanged for SP)
Set16Reg(r, rr, v) ==
    IF rr = "SP" THEN r
    ELSE [r EXCEPT ![High(rr)] = v \div 256, ![Low(rr)] = v % 256]

\* the stack pointer after set16 (changed only for SP)
Set16Sp(s, rr, v) == IF rr = "SP" THEN v ELSE s

(***************************************************************************)
(* State: the stack primitives.                                            *)
(***************************************************************************)
\* push: the stack pointer after the two wrapping decrements
PushSp(s) == Wrap16(Wrap16(s - 1) - 1)

\* a push that stores the bytes in the opposite order
PushMemLowFirst(m, s, value) ==
    Poke(Poke(m, Wrap16(s - 1), AsU8(value)),
         Wrap16(Wrap16(s - 1) - 1), AsU8(value \div 256))

\* push: high byte at sp-1, then low byte at sp-2
PushMem(m, s, value) ==
    Poke(Poke(m, Wrap16(s - 1), AsU8(value \div 256)),
         Wrap16(Wrap16(s - 1) - 1), AsU8(value))

\* pop: the stack pointer after the two wrapping increments
PopSp(s) == Wrap16(Wrap16(s + 1) + 1)

\* pop: low byte at sp, high byte at sp+1
PopValue(m, b, s) == PeekIn(m, b, s) + PeekIn(m, b, Wrap16(s + 1)) * 256

(***************************************************************************)
(* State: register access through the addressing context.                  *)
(***************************************************************************)
\* get_index_value / the register the context selects
GetIndexValue == Get16(reg, sp, index)

\* an index address that takes the displacement as an unsigned byte
GetIndexAddressUnsigned ==
    Wrap16(Get16(reg, sp, index) + (displacement % 256))

\* get_index_address: (HL), (IX+d), (IY+d)
GetIndexAddress ==
    AsU16(WrappingAddI16(AsI16(Get16(reg, sp, index)), displacement))

\* translate_reg: H and L become halves of IX or IY under that context
TranslateReg(name) ==
    CASE index = "IX" ->
            (CASE name = "H" -> "IXH" [] name = "L" -> "IXL" [] OTHER -> name)
      [] index = "IY" ->
            (CASE name = "H" -> "IYH" [] name = "L" -> "IYL" [] OTHER -> name)
      [] OTHER -> name

\* get_reg
GetReg(name) ==
    IF name = "_HL" THEN Peek(GetIndexAddress)
    ELSE Get8(reg, TranslateReg(name))

\* get_reg16
GetReg16(rr) ==
    IF rr = "HL" THEN Get16(reg, sp, index) ELSE Get16(reg, sp, rr)

\* set_reg, register branch: the cell written, named as given
SetRegCell(name) == name

\* set_reg: the register cells afterwards
SetRegReg(name, value) ==
    IF name = "_HL" THEN reg ELSE Set8(reg, SetRegCell(name), value)

\* set_reg: the memory afterwards
SetRegMem(name, value) ==
    IF name = "_HL" THEN Poke(mem, GetIndexAddress, value) ELSE mem

\* a set_reg16 that writes the pair as named
SetReg16PairLiteral(rr) == rr

\* set_reg16: the pair written
SetReg16Pair(rr) == IF rr = "HL" THEN index ELSE rr

(***************************************************************************)
(* The record of the last operation.                                       *)
(***************************************************************************)
NoOp == [op |-> "none", prev |-> "none", name |-> "", arg |-> 0, ret |-> 0,
         sp0 |-> 0, addr |-> 0]

Did(o, n, a, r) == [op |-> o, prev |-> last.op, name |-> n, arg |-> a,
                    ret |-> r, sp0 |-> sp, addr |-> 0]

(***************************************************************************)
(* Sample inputs.                                                          *)
(***************************************************************************)
Words == {0, 4660, 65535}                 \* 0x0000, 0x1234, 0xFFFF
Bytes == {0, 171}                         \* 0x00, 0xAB
StackPointers == {0, 1, 2, 32768, 65535}
Displacements == {-128, 0, 5, 127}
Contexts == {"HL", "IX", "IY"}
AccessReg8 == {"H", "L", "B", "IXH", "IYL", "_HL"}
AccessReg16 == {"HL", "BC", "IX", "SP"}

\* the memory a State is constructed over: empty, or every byte nonzero
Memories == {NoBinary, [address |-> 0, size |-> 65536, fill |-> 1]}

\* distinct values in every cell; IX = 0xFFFE and IY = 0x0003 wrap with a
\* displacement, HL = 0x1234 does not
InitReg ==
    [n \in Reg8 |->
        CASE n = "A" -> 1 [] n = "F" -> 2 [] n = "B" -> 3 [] n = "C" -> 4
          [] n = "D" -> 5 [] n = "E" -> 6 [] n = "H" -> 18 [] n = "L" -> 52
          [] n = "IXH" -> 255 [] n = "IXL" -> 254
          [] n = "IYH" -> 0 [] n = "IYL" -> 3]

(***************************************************************************)
(* Initial values of the parts a specification does not exercise.          *)
(***************************************************************************)
StateIdle ==
    /\ reg = InitReg /\ sp = 0 /\ pc = 0
    /\ mem = << >> /\ binary = NoBinary
    /\ halted = FALSE /\ index = "HL" /\ displacement = 0

ConsoleIdle ==
    /\ next_char = None /\ queue = << >> /\ consumed = << >>
    /\ returned = << >> /\ cpc = "idle" /\ arrived = 0 /\ raw_mode = FALSE

\* Console::new: nothing buffered, raw mode enabled and left enabled
ConsoleNew ==
    /\ next_char = None /\ queue = << >> /\ consumed = << >>
    /\ returned = << >> /\ cpc = "idle" /\ arrived = 0 /\ raw_mode = TRUE

MainIdle ==
    /\ phase = "idle" /\ file = None /\ params = None
    /\ trace = << >> /\ served = {} /\ pc_before = 0 /\ pc_seen = 0

HistoryIdle == last = NoOp /\ saved = [H |-> 0, L |-> 0] /\ steps = 0

(***************************************************************************)
(* State::new, and the operations of State as actions.                     *)
(***************************************************************************)
\* State::new over some memory, the stack pointer anywhere
InitStack ==
    /\ reg = InitReg /\ pc = 0
    /\ sp \in StackPointers
    /\ mem = << >> /\ binary \in Memories
    /\ halted = FALSE /\ index = "HL" /\ displacement = 0
    /\ HistoryIdle /\ ConsoleIdle /\ MainIdle

Push(value) ==
    /\ steps < MaxOps
    /\ mem' = PushMem(mem, sp, value)
    /\ sp' = PushSp(sp)
    /\ last' = Did("push", "", value, 0)
    /\ steps' = steps + 1
    /\ UNCHANGED <<reg, pc, binary, halted, index, displacement, saved>>
    /\ UNCHANGED <<consoleVars, mainVars>>

\* a pop right after a push keeps that push's value and stack pointer on record
Pop ==
    /\ steps < MaxOps
    /\ sp' = PopSp(sp)
    /\ last' = [op |-> "pop", prev |-> last.op, name |-> "",
                arg |-> last.arg, ret |-> PopValue(mem, binary, sp),
                sp0 |-> last.sp0, addr |-> 0]
    /\ steps' = steps + 1
    /\ UNCHANGED <<reg, pc, mem, binary, halted, index, displacement, saved>>
    /\ UNCHANGED <<consoleVars, mainVars>>

NextStack == (\E value \in Words : Push(value)) \/ Pop

SpecStack == InitStack /\ [][NextStack]_vars

(***************************************************************************)
(* C1: a pop performed immediately after push(v) returns v and leaves the  *)
(* stack pointer where it was before the push, for every v and every       *)
(* stack pointer, the wrapping ones (0 and 1) included.                    *)
(***************************************************************************)
C1_PushPopRoundTrip ==
    (last.op = "pop" /\ last.prev = "push")
        => (last.ret = last.arg /\ sp = last.sp0)

\* a push of 0x1234 at sp = 1 (high byte at 0, low byte at 0xFFFF) over
\* nonzero memory, then the pop
C1_Witness ==
    /\ last.op = "pop" /\ last.prev = "push"
    /\ last.sp0 = 1 /\ last.arg = 4660 /\ binary.size > 0
    /\ 65535 \in DOMAIN mem /\ 0 \in DOMAIN mem

(***************************************************************************)
(* The register operations of State as actions.  The instruction decoder   *)
(* sets the addressing context (State.index, State.displacement).          *)
(***************************************************************************)
InitRegs ==
    /\ reg = InitReg /\ pc = 0 /\ sp = 61440
    /\ mem = << >> /\ binary \in Memories
    /\ halted = FALSE /\ index = "HL" /\ displacement = 0
    /\ HistoryIdle /\ ConsoleIdle /\ MainIdle

SetIndex(r, d) ==
    /\ steps < MaxOps
    /\ index' = r
    /\ displacement' = d
    /\ saved' = IF index = "HL" THEN [H |-> reg["H"], L |-> reg["L"]]
                ELSE saved
    /\ last' = Did("set_index", r, d, 0)
    /\ steps' = steps + 1
    /\ UNCHANGED <<reg, sp, pc, mem, binary, halted>>
    /\ UNCHANGED <<consoleVars, mainVars>>

GetRegOp(name) ==
    /\ steps < MaxOps
    /\ last' = Did("get_reg", name, 0, GetReg(name))
    /\ steps' = steps + 1
    /\ UNCHANGED <<stateVars, saved, consoleVars, mainVars>>

GetReg16Op(rr) ==
    /\ steps < MaxOps
    /\ last' = Did("get_reg16", rr, 0, GetReg16(rr))
    /\ steps' = steps + 1
    /\ UNCHANGED <<stateVars, saved, consoleVars, mainVars>>

SetRegOp(name, value) ==
    /\ steps < MaxOps
    /\ reg' = SetRegReg(name, value)
    /\ mem' = SetRegMem(name, value)
    /\ last' = Did("set_reg", name, value, 0)
    /\ steps' = steps + 1
    /\ UNCHANGED <<sp, pc, binary, halted, index, displacement, saved>>
    /\ UNCHANGED <<consoleVars, mainVars>>

SetReg16Op(rr, value) ==
    /\ steps < MaxOps
    /\ reg' = Set16Reg(reg, SetReg16Pair(rr), value)
    /\ sp' = Set16Sp(sp, SetReg16Pair(rr), value)
    /\ last' = Did("set_reg16", rr, value, 0)
    /\ steps' = steps + 1
    /\ UNCHANGED <<pc, mem, binary, halted, index, displacement, saved>>
    /\ UNCHANGED <<consoleVars, mainVars>>

NextRegs ==
    \/ \E r \in Contexts, d \in Displacements : SetIndex(r, d)
    \/ \E name \in AccessReg8 : GetRegOp(name)
    \/ \E rr \in AccessReg16 : GetReg16Op(rr)
    \/ \E name \in AccessReg8, value \in Bytes : SetRegOp(name, value)
    \/ \E rr \in AccessReg16, value \in Words : SetReg16Op(rr, value)

SpecRegs == InitRegs /\ [][NextRegs]_vars

(***************************************************************************)
(* C2: under context IX or IY, get_reg and set_reg of H and L both act on  *)
(* the matching half of the selected index register; under context HL they *)
(* act on the H/L cells; every other 8-bit name is accessed as named.      *)
(***************************************************************************)
ClaimedCell(name) ==
    CASE name = "H" /\ index = "IX" -> "IXH"
      [] name = "L" /\ index = "IX" -> "IXL"
      [] name = "H" /\ index = "IY" -> "IYH"
      [] name = "L" /\ index = "IY" -> "IYL"
      [] OTHER -> name

C2_HalvesFollowContext ==
    [][(steps' = steps + 1 /\ last'.name \in Reg8)
        => /\ last'.op = "get_reg" => last'.ret = reg[ClaimedCell(last'.name)]
           /\ last'.op = "set_reg" =>
                reg' = [reg EXCEPT ![ClaimedCell(last'.name)] = last'.arg]]_vars

(***************************************************************************)
(* C3: once the context is set back to HL, reading H, L and HL gives the   *)
(* values the H/L cells held when the context left HL: no set_reg or       *)
(* set_reg16 made under IX or IY changes the H/L cells.                    *)
(***************************************************************************)
C3_LiteralHLUntouched ==
    (last.op = "set_index" /\ index = "HL")
        => /\ GetReg("H") = saved.H
           /\ GetReg("L") = saved.L
           /\ GetReg16("HL") = saved.H * 256 + saved.L

(***************************************************************************)
(* C4: get_reg(_HL) returns the byte at (value of the context register +   *)
(* displacement) mod 65536, and set_reg(_HL, x) writes x there and nowhere *)
(* else, for HL, IX and IY and every displacement in -128..127.            *)
(***************************************************************************)
ClaimedAddress == (Get16(reg, sp, index) + displacement) % 65536

C4_IndirectAddress ==
    [][(steps' = steps + 1 /\ last'.name = "_HL")
        => /\ last'.op = "get_reg" =>
                /\ last'.ret = Peek(ClaimedAddress)
                /\ UNCHANGED <<mem, binary, reg>>
           /\ last'.op = "set_reg" =>
                /\ mem' = Poke(mem, ClaimedAddress, last'.arg)
                /\ UNCHANGED <<binary, reg, sp>>]_vars

\* a write through (IY-128) with IY = 3, which wraps below zero to 0xFF83,
\* read back through the same context
C4_Witness ==
    /\ last.op = "get_reg" /\ last.name = "_HL" /\ last.prev = "set_reg"
    /\ index = "IY" /\ displacement = -128
    /\ 65411 \in DOMAIN mem /\ last.ret = 171

(***************************************************************************)
(* The console adapter.  A host event is a record: kind "Key" with a key   *)
(* code, the character of a Char key and the set of modifier flags, or a   *)
(* kind that is no keyboard event.                                         *)
(***************************************************************************)
KeyEvent(code, c, modifiers) ==
    [kind |-> "Key", code |-> code, c |-> c, modifiers |-> modifiers]

OtherEvent(kind) == [kind |-> kind, code |-> "", c |-> 0, modifiers |-> {}]

\* a Char arm that takes control characters relative to '@'
CharToChatFromAt(c, modifiers) ==
    IF modifiers = {} \/ modifiers = {"SHIFT"}
    THEN (IF 32 <= c /\ c <= 126 THEN Some(AsU8(c)) ELSE None)
    ELSE IF modifiers = {"CONTROL"}
    THEN (IF 96 <= c /\ c <= 126 THEN Some(AsU8(c) - 64) ELSE None)
    ELSE None

\* event_to_chat, the Char arm
CharToChat(c, modifiers) ==
    IF modifiers = {} \/ modifiers = {"SHIFT"}
    THEN (IF 32 <= c /\ c <= 126 THEN Some(AsU8(c)) ELSE None)
    ELSE IF modifiers = {"CONTROL"}
    THEN (IF 96 <= c /\ c <= 126 THEN Some(AsU8(c) - 96) ELSE None)
    ELSE None

\* event_to_chat
EventToChat(event) ==
    IF event.kind = "Key"
    THEN CASE event.code = "Char" -> CharToChat(event.c, event.modifiers)
           [] event.code = "Backspace" -> Some(127)
           [] event.code = "Enter" -> Some(13)
           [] event.code = "Left" -> Some(8)
           [] event.code = "Right" -> Some(12)
           [] event.code = "Up" -> Some(11)
           [] event.code = "Down" -> Some(10)
           [] event.code = "Home" -> Some(30)
           [] event.code = "Tab" -> Some(9)
           [] event.code = "Esc" -> Some(27)
           [] OTHER -> None
    ELSE None

\* a status() that decodes the event and forgets the byte
StatusDrop(ch) == None

\* status, on a decodable event: the byte is kept in next_char
StatusKeep(ch) == Some(ch)

\* a read() that leaves the byte in the buffer
ReadKeep == next_char

\* read with a byte buffered: the buffer afterwards
ReadTake == None

\* a status() that polls again when nothing is pending
StatusKeepsPolling == "status"

\* status, when the poll finds nothing pending: break false
StatusGivesUp == "idle"

\* the events the host sends in this model: 'a', control-'a', Enter, the
\* function key F1 and a terminal resize
HostEvents ==
    { KeyEvent("Char", 97, {}), KeyEvent("Char", 97, {"CONTROL"}),
      KeyEvent("Enter", 0, {}), KeyEvent("F1", 0, {}), OtherEvent("Resize") }

\* Console::new: raw mode enabled, nothing buffered
InitConsole ==
    /\ next_char = None /\ queue = << >> /\ consumed = << >>
    /\ returned = << >> /\ cpc = "idle" /\ arrived = 0 /\ raw_mode = TRUE
    /\ StateIdle /\ HistoryIdle /\ MainIdle

\* the host: one more input event is pending
Arrive(event) ==
    /\ arrived < MaxEvents
    /\ queue' = Append(queue, event)
    /\ arrived' = arrived + 1
    /\ UNCHANGED <<next_char, consumed, returned, cpc, raw_mode>>
    /\ UNCHANGED <<stateVars, last, saved, steps, mainVars>>

\* status(): true at once when a byte is buffered, else the poll loop
StatusCall ==
    /\ cpc = "idle"
    /\ IF next_char # None
       THEN /\ last' = Did("status", "buffered", 0, 1)
            /\ UNCHANGED cpc
       ELSE /\ cpc' = "status"
            /\ last' = Did("status", "polling", 0, 0)
    /\ UNCHANGED <<next_char, queue, consumed, returned, arrived, raw_mode>>
    /\ UNCHANGED <<stateVars, saved, steps, mainVars>>

\* one turn of status()'s loop: poll, then read and decode, or give up
StatusPoll ==
    /\ cpc = "status"
    /\ IF queue # << >>
       THEN LET event == Head(queue)
                some_ch == EventToChat(event)
            IN  /\ queue' = Tail(queue)
                /\ consumed' = Append(consumed, event)
                /\ IF some_ch # None
                   THEN /\ next_char' = StatusKeep(some_ch[1])
                        /\ cpc' = "idle"
                        /\ last' = Did("status", "found", 0, 1)
                   ELSE /\ UNCHANGED <<next_char, cpc>>
                        /\ last' = Did("status", "ignored", 0, 0)
       ELSE /\ cpc' = StatusGivesUp
            /\ last' = Did("status", "timeout", 0, 0)
            /\ UNCHANGED <<next_char, queue, consumed>>
    /\ UNCHANGED <<returned, arrived, raw_mode>>
    /\ UNCHANGED <<stateVars, saved, steps, mainVars>>

\* read(): the buffered byte when there is one, else the blocking loop
ReadCall ==
    /\ cpc = "idle"
    /\ IF next_char # None
       THEN /\ next_char' = ReadTake
            /\ returned' = Append(returned, next_char[1])
            /\ last' = Did("read", "buffered", 0, next_char[1])
            /\ UNCHANGED cpc
       ELSE /\ cpc' = "read"
            /\ last' = Did("read", "waiting", 0, 0)
            /\ UNCHANGED <<next_char, returned>>
    /\ UNCHANGED <<queue, consumed, arrived, raw_mode>>
    /\ UNCHANGED <<stateVars, saved, steps, mainVars>>

\* one turn of read()'s loop: event::read() returns once an event is pending
ReadEvent ==
    /\ cpc = "read"
    /\ queue # << >>
    /\ LET event == Head(queue)
           some_ch == EventToChat(event)
       IN  /\ queue' = Tail(queue)
           /\ consumed' = Append(consumed, event)
           /\ IF some_ch # None
              THEN /\ returned' = Append(returned, some_ch[1])
                   /\ cpc' = "idle"
                   /\ last' = Did("read", "found", 0, some_ch[1])
              ELSE /\ UNCHANGED <<returned, cpc>>
                   /\ last' = Did("read", "ignored", 0, 0)
    /\ UNCHANGED <<next_char, arrived, raw_mode>>
    /\ UNCHANGED <<stateVars, saved, steps, mainVars>>

NextConsole ==
    \/ \E event \in HostEvents : Arrive(event)
    \/ StatusCall
    \/ StatusPoll
    \/ ReadCall
    \/ ReadEvent

SpecConsole == InitConsole /\ [][NextConsole]_vars

(***************************************************************************)
(* C5: however status(), read() and the arrival of host events interleave, *)
(* no decodable event is lost, duplicated or reordered: the bytes read()   *)
(* returned, followed by the byte status() buffered if there is one, are   *)
(* the decodable events taken from the host queue, in arrival order; so a  *)
(* buffered byte is what the next read() returns.                          *)
(***************************************************************************)
RECURSIVE DecodedBytes(_)
DecodedBytes(events) ==
    IF events = << >> THEN << >>
    ELSE EventToChat(Head(events)) \o DecodedBytes(Tail(events))

C5_NoInputLost == returned \o next_char = DecodedBytes(consumed)

\* F1 was discarded, two bytes were read in arrival order, the second one
\* out of the buffer status() had filled
C5_Witness ==
    /\ Len(returned) = 2 /\ Len(consumed) = 3
    /\ \E i \in 1..3 : EventToChat(consumed[i]) = None
    /\ returned[1] # returned[2]
    /\ last.op = "read" /\ last.name = "buffered"

(***************************************************************************)
(* The guest memory layout (the constants collaborator).                   *)
(***************************************************************************)
SYSTEM_PARAMS_ADDRESS == 128        \* 0x0080
FCB1_ADDRESS == 92                  \* 0x005C
FCB2_ADDRESS == 108                 \* 0x006C
TPA_BASE_ADDRESS == 256             \* 0x0100
CCP_BASE_ADDRESS == 58368           \* 0xE400
TPA_STACK_ADDRESS == 60160          \* 0xEB00
BDOS_BASE_ADDRESS == 60422          \* 0xEC06
BIOS_BASE_ADDRESS == 64000          \* 0xFA00
BIOS_COMMAND_COUNT == 17

\* the bundled command processor image (CCP_BINARY)
CcpBinary == [size |-> 2048, fill |-> 49]

Min(a, b) == IF a < b THEN a ELSE b

(***************************************************************************)
(* main: load CCP or program.                                              *)
(***************************************************************************)
\* the length of buf, the read buffer
BufLen == 65536 - TPA_BASE_ADDRESS

\* a read that takes the whole file whatever its size
ReadSizeWholeFile(f) == f.size

\* binary_size: file.read(&mut buf) fills at most the buffer
ReadSize(f) == Min(f.size, BufLen)

\* binary, binary_address and binary_size after the match on filename
LoadedBinary(filename) ==
    IF filename = None
    THEN [address |-> CCP_BASE_ADDRESS, size |-> CcpBinary.size,
          fill |-> CcpBinary.fill]
    ELSE [address |-> TPA_BASE_ADDRESS, size |-> ReadSize(filename[1]),
          fill |-> filename[1].fill]

\* "for i in 0..binary_size: poke(binary_address + i, binary[i])": the image
\* becomes the background and replaces what was poked in its range
LoadMem(m, b) ==
    [a \in {x \in DOMAIN m : ~(x >= b.address /\ x < b.address + b.size)}
        |-> m[a]]

(***************************************************************************)
(* main: copy parameters.                                                  *)
(***************************************************************************)
\* a length that is not capped
ParamsLenWholeTail(p) == Len(p)

\* len, capped at 0x7E
ParamsLen(p) == IF Len(p) > 126 THEN 126 ELSE Len(p)

\* "for i in 0..len: poke(SYSTEM_PARAMS_ADDRESS + i + 2, p_bytes[i])": the
\* addresses are distinct, so the loop is one map (p is 1-based here)
CopyChars(m, p, len) ==
    LET written == {SYSTEM_PARAMS_ADDRESS + i + 2 : i \in 0..(len - 1)}
    IN  [x \in (DOMAIN m) \cup written |->
            IF x \in written THEN p[x - SYSTEM_PARAMS_ADDRESS - 2 + 1]
            ELSE m[x]]

\* the two pokes at SYSTEM_PARAMS_ADDRESS, then the characters
CopyTail(m, p) ==
    LET len == ParamsLen(p)
        m1 == Poke(m, SYSTEM_PARAMS_ADDRESS, AsU8(len + 1))
        m2 == Poke(m1, SYSTEM_PARAMS_ADDRESS, 32)
    IN  CopyChars(m2, p, len)

\* split_ascii_whitespace: the tokens of p, each from a start (a character
\* that is no white space, after white space or first) to its end
IsWhitespace(c) == c \in {9, 10, 12, 13, 32}

TokenStarts(p) ==
    {i \in 1..Len(p) :
        ~IsWhitespace(p[i]) /\ (i = 1 \/ IsWhitespace(p[i - 1]))}

TokenEnd(p, i) ==
    CHOOSE j \in i..Len(p) :
        /\ \A k \in i..j : ~IsWhitespace(p[k])
        /\ j = Len(p) \/ IsWhitespace(p[j + 1])

Tokens(p) ==
    LET starts == TokenStarts(p)
        nth(k) == CHOOSE i \in starts :
                      Cardinality({j \in starts : j < i}) = k - 1
    IN  [k \in 1..Cardinality(starts) |->
            SubSeq(p, nth(k), TokenEnd(p, nth(k)))]

\* name_to_8_3: name and type split at the dot, upper case, padded with
\* spaces; None when a part is too long
Upper(c) == IF c >= 97 /\ c <= 122 THEN c - 32 ELSE c

Padded(t, n) == [i \in 1..n |-> IF i <= Len(t) THEN Upper(t[i]) ELSE 32]

NameTo83(tok) ==
    LET dots == {i \in 1..Len(tok) : tok[i] = 46}
        d == IF dots = {} THEN Len(tok) + 1
             ELSE CHOOSE i \in dots : \A j \in dots : i <= j
        name == SubSeq(tok, 1, d - 1)
        type == SubSeq(tok, d + 1, Len(tok))
    IN  IF Len(name) > 8 \/ Len(type) > 3 THEN None
        ELSE Some(Padded(name, 8) \o Padded(type, 3))

\* Fcb::set_name: the eleven name bytes after the drive byte
RECURSIVE FcbSetName(_, _, _, _)
FcbSetName(m, address, name, i) ==
    IF i > Len(name) THEN m
    ELSE FcbSetName(Poke(m, address + i, name[i]), address, name, i + 1)

\* the FCB of the k-th token, when there is one and it converts
FcbFromArg(m, toks, k, address) ==
    IF k <= Len(toks) /\ NameTo83(toks[k]) # None
    THEN FcbSetName(m, address, NameTo83(toks[k])[1], 1)
    ELSE m

\* the whole match on params
CopyParameters(m, ps) ==
    IF ps = None THEN Poke(m, SYSTEM_PARAMS_ADDRESS, 0)
    ELSE LET p == ps[1]
             toks == Tokens(p)
             m1 == CopyTail(m, p)
             m2 == FcbFromArg(m1, toks, 1, FCB1_ADDRESS)
         IN  FcbFromArg(m2, toks, 2, FCB2_ADDRESS)

(***************************************************************************)
(* main: the stack of a transient program.                                 *)
(***************************************************************************)
\* poke(sp, 0); sp -= 1; poke(sp, 0); sp -= 1
StackMem(m) ==
    Poke(Poke(m, TPA_STACK_ADDRESS, 0), TPA_STACK_ADDRESS - 1, 0)

StackSp == TPA_STACK_ADDRESS - 1 - 1

(***************************************************************************)
(* Sample inputs of main.                                                  *)
(***************************************************************************)
\* no CMD; a missing file; a short image; one of exactly the capacity of
\* the read buffer; one byte more
Files ==
    { None,
      Some([exists |-> FALSE, size |-> 0, fill |-> 0]),
      Some([exists |-> TRUE, size |-> 3, fill |-> 1]),
      Some([exists |-> TRUE, size |-> 65280, fill |-> 1]),
      Some([exists |-> TRUE, size |-> 65281, fill |-> 1]) }

LongTail(n) == [i \in 1..n |-> 65 + (i % 26)]

\* no ARGS; the empty tail; "AB"; "a b.c"; 126 and 127 characters
Tails ==
    { None, Some(<< >>), Some(<<65, 66>>), Some(<<97, 32, 98, 46, 99>>),
      Some(LongTail(126)), Some(LongTail(127)) }

(***************************************************************************)
(* main up to the dispatch loop.                                           *)
(***************************************************************************)
\* after argument parsing and "Init cpm": empty memory, fresh registers, the
\* console adapter constructed
InitMain ==
    /\ phase = "start"
    /\ file \in Files /\ params \in Tails
    /\ trace = << >> /\ served = {} /\ pc_before = 0 /\ pc_seen = 0
    /\ StateIdle /\ HistoryIdle /\ ConsoleNew

\* File::open(name).unwrap() on a file that cannot be opened
LoadFails ==
    /\ phase = "start"
    /\ file # None /\ ~file[1].exists
    /\ phase' = "io_abort"
    /\ last' = Did("load", "failed", 0, 0)
    /\ UNCHANGED <<stateVars, saved, steps, consoleVars>>
    /\ UNCHANGED <<file, params, trace, served, pc_before, pc_seen>>

Load ==
    /\ phase = "start"
    /\ IF file = None THEN TRUE ELSE file[1].exists
    /\ binary' = LoadedBinary(file)
    /\ mem' = LoadMem(mem, LoadedBinary(file))
    /\ phase' = "loaded"
    /\ last' = Did("load", "", 0, 0)
    /\ UNCHANGED <<reg, sp, pc, halted, index, displacement>>
    /\ UNCHANGED <<saved, steps, consoleVars>>
    /\ UNCHANGED <<file, params, trace, served, pc_before, pc_seen>>

Marshal ==
    /\ phase = "loaded"
    /\ mem' = CopyParameters(mem, params)
    /\ phase' = "params"
    /\ last' = Did("params", "", 0, 0)
    /\ UNCHANGED <<reg, sp, pc, binary, halted, index, displacement>>
    /\ UNCHANGED <<saved, steps, consoleVars>>
    /\ UNCHANGED <<file, params, trace, served, pc_before, pc_seen>>

\* the stack of a transient program, then set_pc(binary_address)
Enter ==
    /\ phase = "params"
    /\ IF binary.address = TPA_BASE_ADDRESS
       THEN mem' = StackMem(mem) /\ sp' = StackSp
       ELSE UNCHANGED <<mem, sp>>
    /\ pc' = binary.address
    /\ phase' = "run"
    /\ last' = Did("enter", "", 0, 0)
    /\ UNCHANGED <<reg, binary, halted, index, displacement>>
    /\ UNCHANGED <<saved, steps, consoleVars>>
    /\ UNCHANGED <<file, params, trace, served, pc_before, pc_seen>>

(***************************************************************************)
(* The instruction engine (cpu.execute_instruction), by the effect of the  *)
(* instruction it executes: a one-byte instruction, HALT, JP nn, CALL nn   *)
(* or RET.                                                                 *)
(***************************************************************************)
Instruction(kind, target) == [kind |-> kind, target |-> target]

ExecPc(e) ==
    CASE e.kind = "jp" -> e.target
      [] e.kind = "call" -> e.target
      [] e.kind = "ret" -> PopValue(mem, binary, sp)
      [] OTHER -> Wrap16(pc + 1)

ExecSp(e) ==
    CASE e.kind = "call" -> PushSp(sp)
      [] e.kind = "ret" -> PopSp(sp)
      [] OTHER -> sp

ExecMem(e) ==
    IF e.kind = "call" THEN PushMem(mem, sp, Wrap16(pc + 3)) ELSE mem

ExecHalted(e) == e.kind = "halt"

(***************************************************************************)
(* The BIOS and BDOS handlers (bios.execute, bdos.execute), as far as the  *)
(* dispatch loop sees them: whether the program counter is a trap address, *)
(* whether the BIOS reports program exit, and the simulated return.        *)
(***************************************************************************)
BiosCommand(p) ==
    IF /\ p >= BIOS_BASE_ADDRESS
       /\ (p - BIOS_BASE_ADDRESS) % 3 = 0
       /\ (p - BIOS_BASE_ADDRESS) \div 3 < BIOS_COMMAND_COUNT
    THEN Some((p - BIOS_BASE_ADDRESS) \div 3)
    ELSE None

\* BOOT and WBOOT end the program
BiosExit(p) == BiosCommand(p) \in {Some(0), Some(1)}

BdosTrap(p) == p = BDOS_BASE_ADDRESS

(***************************************************************************)
(* main: the trap dispatch loop, one iteration per action.                 *)
(***************************************************************************)
\* a loop without the is_halted check
HaltIgnored(h) == FALSE

\* "if cpu.is_halted() { panic!(...) }"
HaltAborts(h) == h

\* a loop that goes on after the BIOS reported program exit
ExitIgnored(exit) == FALSE

\* "if bios.execute(...) { println!("Terminated"); break; }"
ExitEnds(exit) == exit

\* a guard placed on the BDOS entry address itself
GuardTripsAtBase(p) == p = BDOS_BASE_ADDRESS

\* "if pc == BDOS_BASE_ADDRESS - 1 { panic!(...) }"
GuardTrips(p) == p = BDOS_BASE_ADDRESS - 1

\* a guard that reads the program counter again after the handlers
GuardPcLive(local, live) == live

\* the guard tests the local pc, read before the handlers ran
GuardPc(local, live) == local

JumpTargets ==
    { TPA_BASE_ADDRESS, BDOS_BASE_ADDRESS - 4, BDOS_BASE_ADDRESS - 2,
      BDOS_BASE_ADDRESS - 1, BDOS_BASE_ADDRESS, BIOS_BASE_ADDRESS + 2,
      BIOS_BASE_ADDRESS + 3, BIOS_BASE_ADDRESS + 6 }

CallTargets == {BDOS_BASE_ADDRESS, BIOS_BASE_ADDRESS + 3, BIOS_BASE_ADDRESS + 6}

Instructions ==
    {Instruction("nop", 0), Instruction("halt", 0), Instruction("ret", 0)}
    \cup {Instruction("jp", t) : t \in JumpTargets}
    \cup {Instruction("call", t) : t \in CallTargets}

Step(e) ==
    /\ phase = "run"
    /\ steps < MaxSteps
    /\ LET \* cpu.execute_instruction(&mut machine)
           pc1 == ExecPc(e)
           sp1 == ExecSp(e)
           mem1 == ExecMem(e)
           h1 == ExecHalted(e)
           \* let pc = cpu.registers().pc()
           pcl == pc1
           aborts == HaltAborts(h1)
           \* bios.execute(cpu.registers(), call_trace)
           biosRuns == ~aborts
           biosActs == biosRuns /\ BiosCommand(pc1) # None
           exit == biosRuns /\ BiosExit(pc1)
           pc2 == IF biosActs /\ ~exit THEN PopValue(mem1, binary, sp1) ELSE pc1
           sp2 == IF biosActs /\ ~exit THEN PopSp(sp1) ELSE sp1
           ends == ExitEnds(exit)
           \* bdos.execute(&mut bios, &mut machine, cpu.registers(), ...)
           bdosRuns == biosRuns /\ ~ends
           bdosActs == bdosRuns /\ BdosTrap(pc2)
           pc3 == IF bdosActs THEN PopValue(mem1, binary, sp2) ELSE pc2
           sp3 == IF bdosActs THEN PopSp(sp2) ELSE sp2
           \* if pc == BDOS_BASE_ADDRESS - 1
           guardRuns == bdosRuns
           trips == guardRuns /\ GuardTrips(GuardPc(pcl, pc3))
       IN  /\ pc' = pc3
           /\ sp' = sp3
           /\ mem' = mem1
           /\ halted' = h1
           /\ pc_seen' = pcl
           /\ trace' = <<"execute", "is_halted">>
                        \o (IF biosRuns THEN <<"bios">> ELSE << >>)
                        \o (IF bdosRuns THEN <<"bdos">> ELSE << >>)
                        \o (IF guardRuns THEN <<"guard">> ELSE << >>)
           /\ served' = (IF biosActs THEN {"bios"} ELSE {})
                        \cup (IF exit THEN {"exit"} ELSE {})
                        \cup (IF bdosActs THEN {"bdos"} ELSE {})
           /\ phase' = IF aborts THEN "halt_abort"
                       ELSE IF ends THEN "terminated"
                       ELSE IF trips THEN "guard_abort"
                       ELSE "run"
    /\ pc_before' = pc
    /\ steps' = steps + 1
    /\ last' = Did("step", e.kind, e.target, 0)
    /\ UNCHANGED <<reg, binary, index, displacement, saved>>
    /\ UNCHANGED <<consoleVars, file, params>>

NextMain ==
    \/ LoadFails
    \/ Load
    \/ Marshal
    \/ Enter
    \/ \E e \in Instructions : Step(e)

SpecMain == InitMain /\ [][NextMain]_vars

(***************************************************************************)
(* C6: with a command tail p, after the parameters are copied the byte at  *)
(* SYSTEM_PARAMS_ADDRESS is the count min(len(p), 126) and the first       *)
(* min(len(p), 126) bytes of p follow it at the next addresses, in order.  *)
(***************************************************************************)
C6_CountThenCharacters ==
    (last.op = "params" /\ params # None)
        => LET p == params[1]
               n == Min(Len(p), 126)
           IN  /\ Peek(SYSTEM_PARAMS_ADDRESS) = n
               /\ \A i \in 1..n : Peek(SYSTEM_PARAMS_ADDRESS + i) = p[i]

(***************************************************************************)
(* C7: when an image is loaded at the transient-program base, the stack    *)
(* pointer is left on a zero return address: a pop made before any push    *)
(* yields 0x0000, whatever the memory held before.                         *)
(***************************************************************************)
C7_SentinelOnTop ==
    (last.op = "enter" /\ binary.address = TPA_BASE_ADDRESS)
        => PopValue(mem, binary, sp) = 0

(***************************************************************************)
(* C8, as stated: an iteration that starts with the program counter at     *)
(* BDOS_BASE_ADDRESS - 1, with no BIOS exit trap matching, ends in the     *)
(* runaway-guard abort, whatever instruction it executes.                  *)
(***************************************************************************)
C8_GuardOnEntryPc ==
    (last.op = "step" /\ pc_before = BDOS_BASE_ADDRESS - 1
                      /\ "exit" \notin served)
        => phase = "guard_abort"

(***************************************************************************)
(* C8, amended: an iteration whose instruction leaves the program counter  *)
(* at BDOS_BASE_ADDRESS - 1 without halting the CPU, with no BIOS exit     *)
(* trap matching, ends in the runaway-guard abort, whatever instruction it *)
(* executed.                                                               *)
(***************************************************************************)
C8_GuardOnSeenPc ==
    (last.op = "step" /\ pc_seen = BDOS_BASE_ADDRESS - 1
                      /\ ~halted /\ "exit" \notin served)
        => phase = "guard_abort"

\* a one-byte instruction at BDOS_BASE_ADDRESS - 2 was executed
C8_Witness ==
    /\ last.op = "step" /\ last.name = "nop"
    /\ pc_before = BDOS_BASE_ADDRESS - 2 /\ pc_seen = BDOS_BASE_ADDRESS - 1
    /\ phase = "guard_abort"

(***************************************************************************)
(* C9: an iteration of the loop ends it normally exactly when the BIOS     *)
(* handler reports program exit (the CPU not being halted), and then the   *)
(* BDOS handler and the guard are not evaluated; it ends it by the halt    *)
(* abort exactly when the CPU is halted, by the guard abort exactly when   *)
(* neither holds and the program counter read after the instruction is     *)
(* BDOS_BASE_ADDRESS - 1; in every other case the loop goes on.            *)
(***************************************************************************)
InTrace(stage) == \E i \in 1..Len(trace) : trace[i] = stage

C9_ThreeWaysToEnd ==
    last.op = "step"
        => /\ phase \in {"run", "terminated", "halt_abort", "guard_abort"}
           /\ phase = "terminated" <=> ("exit" \in served /\ ~halted)
           /\ phase = "terminated" => ~InTrace("bdos") /\ ~InTrace("guard")
           /\ phase = "halt_abort" <=> halted
           /\ phase = "guard_abort" <=>
                /\ ~halted /\ "exit" \notin served
                /\ pc_seen = BDOS_BASE_ADDRESS - 1
           /\ phase = "run" => InTrace("bios") /\ InTrace("bdos")
                               /\ InTrace("guard")

\* a CALL to the BIOS warm-boot vector ended the program
C9_Witness ==
    /\ last.op = "step" /\ last.name = "call"
    /\ phase = "terminated" /\ served = {"bios", "exit"}
    /\ pc_seen = BIOS_BASE_ADDRESS + 3

(***************************************************************************)
(* C10: an iteration that leaves the CPU halted aborts there, before the   *)
(* BIOS or the BDOS handler is invoked, also when the program counter is a *)
(* BIOS or BDOS trap address: no handler acts on a step that halted.       *)
(***************************************************************************)
C10_HaltBeforeHandlers ==
    (last.op = "step" /\ halted)
        => /\ phase = "halt_abort"
           /\ served = {}
           /\ ~InTrace("bios") /\ ~InTrace("bdos")
           /\ pc = pc_seen

\* a HALT just below a BIOS or the BDOS entry: the program counter is a
\* trap address when the halt is seen
C10_Witness ==
    /\ last.op = "step" /\ halted /\ phase = "halt_abort"
    /\ BiosCommand(pc_seen) # None \/ BdosTrap(pc_seen)

(***************************************************************************)
(* State: the fetch primitives.                                            *)
(***************************************************************************)
\* peek_pc, and the value advance_pc returns
PeekPc(m, b, p) == PeekIn(m, b, p)

\* advance_pc: the program counter afterwards
AdvancePcPc(p) == Wrap16(p + 1)

\* peek16_pc computes its second address as "pc+1", a plain u16 addition:
\* past 0xFFFF a build with overflow checks panics, one without them wraps
Peek16PcOutcomes(p) == IF p + 1 > 65535 THEN {"overflow", "wrap"} ELSE {"ok"}

\* peek16_pc, when the addition did not panic
Peek16PcValue(m, b, p) == PeekIn(m, b, p) + PeekIn(m, b, Wrap16(p + 1)) * 256

\* a 16-bit fetch that takes the high byte first
AdvanceImmediate16BigEndian(m, b, p) ==
    PeekPc(m, b, p) * 256 + PeekPc(m, b, AdvancePcPc(p))

\* advance_immediate16: two advance_pc, the first the low byte
AdvanceImmediate16Value(m, b, p) ==
    PeekPc(m, b, p) + PeekPc(m, b, AdvancePcPc(p)) * 256

\* advance_immediate16: the program counter after the two advance_pc
AdvanceImmediate16Pc(p) == AdvancePcPc(AdvancePcPc(p))

ProgramCounters == {0, 256, 65534, 65535}

\* the last operation, with the program counter it started from
Fetched(o, n, a, r) == [Did(o, n, a, r) EXCEPT !.addr = pc]

\* State::new over some memory, the program counter anywhere
InitFetch ==
    /\ reg = InitReg /\ sp = 61440
    /\ pc \in ProgramCounters
    /\ mem = << >> /\ binary \in Memories
    /\ halted = FALSE /\ index = "HL" /\ displacement = 0
    /\ HistoryIdle /\ ConsoleIdle /\ MainIdle

\* no operation follows a panic
Running == last.name # "overflow"

PeekPcOp ==
    /\ steps < MaxOps /\ Running
    /\ last' = Fetched("peek_pc", "", 0, PeekPc(mem, binary, pc))
    /\ steps' = steps + 1
    /\ UNCHANGED <<stateVars, saved, consoleVars, mainVars>>

AdvancePcOp ==
    /\ steps < MaxOps /\ Running
    /\ pc' = AdvancePcPc(pc)
    /\ last' = Fetched("advance_pc", "", 0, PeekPc(mem, binary, pc))
    /\ steps' = steps + 1
    /\ UNCHANGED <<reg, sp, mem, binary, halted, index, displacement, saved>>
    /\ UNCHANGED <<consoleVars, mainVars>>

Peek16PcOp ==
    /\ steps < MaxOps /\ Running
    /\ \E outcome \in Peek16PcOutcomes(pc) :
          last' = IF outcome = "overflow"
                  THEN Fetched("peek16_pc", "overflow", 0, 0)
                  ELSE Fetched("peek16_pc", outcome, 0,
                               Peek16PcValue(mem, binary, pc))
    /\ steps' = steps + 1
    /\ UNCHANGED <<stateVars, saved, consoleVars, mainVars>>

\* after a peek16_pc, that peek's result stays on record in arg
AdvanceImmediate16Op ==
    /\ steps < MaxOps /\ Running
    /\ pc' = AdvanceImmediate16Pc(pc)
    /\ last' = Fetched("advance_immediate16", "",
                       IF last.op = "peek16_pc" THEN last.ret ELSE 0,
                       AdvanceImmediate16Value(mem, binary, pc))
    /\ steps' = steps + 1
    /\ UNCHANGED <<reg, sp, mem, binary, halted, index, displacement, saved>>
    /\ UNCHANGED <<consoleVars, mainVars>>

NextFetch ==
    \/ PeekPcOp
    \/ AdvancePcOp
    \/ Peek16PcOp
    \/ AdvanceImmediate16Op

SpecFetch == InitFetch /\ [][NextFetch]_vars

(***************************************************************************)
(* C11: every address a State primitive computes is reduced modulo 65536   *)
(* and none produces an overflow error, whatever the program counter and   *)
(* stack pointer: advance_pc at 0xFFFF returns the byte at 0xFFFF and sets *)
(* the program counter to 0, and peek16_pc at 0xFFFF takes its high byte   *)
(* from address 0.                                                         *)
(***************************************************************************)
C11_AddressesWrap ==
    /\ last.name # "overflow"
    /\ pc \in 0..65535 /\ sp \in 0..65535 /\ DOMAIN mem \subseteq 0..65535
    /\ last.op = "advance_pc"
         => last.ret = Peek(last.addr) /\ pc = (last.addr + 1) % 65536
    /\ last.op = "peek16_pc"
         => last.ret = Peek(last.addr)
                         + 256 * Peek((last.addr + 1) % 65536)

(***************************************************************************)
(* C12: advance_immediate16 returns mem[pc] + 256 * mem[(pc+1) mod 65536], *)
(* sets the program counter to (pc+2) mod 65536 and changes no memory and  *)
(* no other register; when the program counter does not wrap, the result   *)
(* is that of the peek16_pc made just before.                              *)
(***************************************************************************)
C12_Immediate16 ==
    [][(steps' = steps + 1 /\ last'.op = "advance_immediate16")
        => /\ last'.ret = Peek(pc) + 256 * Peek((pc + 1) % 65536)
           /\ pc' = (pc + 2) % 65536
           /\ UNCHANGED <<mem, binary, reg, sp, halted, index, displacement>>
           /\ (last.op = "peek16_pc" /\ pc + 2 <= 65535)
                => last'.ret = last.ret]_vars

\* the bytes 0xFF, 0x00 at 0xFFFE: the fetch returns 0x00FF and the program
\* counter wraps to 0; it was peeked just before
C12_Witness ==
    /\ last.op = "advance_immediate16" /\ last.prev = "peek16_pc"
    /\ last.addr = 65534 /\ last.ret = 255 /\ last.arg = 255 /\ pc = 0

(***************************************************************************)
(* Console: event_to_chat over the host's events, one pending event each.  *)
(***************************************************************************)
DecodeChars == {31, 32, 65, 95, 96, 97, 126, 127, 233}

DecodeModifiers ==
    { {}, {"SHIFT"}, {"CONTROL"}, {"ALT"}, {"CONTROL", "SHIFT"} }

DecodeKeys ==
    { "Backspace", "Enter", "Left", "Right", "Up", "Down", "Home", "Tab",
      "Esc", "End", "PageUp", "PageDown", "BackTab", "Delete", "Insert",
      "F1", "Null" }

DecodeEvents ==
    { KeyEvent("Char", c, m) : c \in DecodeChars, m \in DecodeModifiers }
    \cup { KeyEvent(k, 0, m) : k \in DecodeKeys, m \in {{}, {"CONTROL"}} }
    \cup { OtherEvent("Mouse"), OtherEvent("Resize") }

\* Console::new, with one event pending at the host
InitDecode ==
    /\ next_char = None /\ consumed = << >>
    /\ \E event \in DecodeEvents : queue = <<event>>
    /\ returned = << >> /\ cpc = "idle" /\ arrived = 1 /\ raw_mode = TRUE
    /\ StateIdle /\ HistoryIdle /\ MainIdle

NextDecode ==
    \/ StatusCall
    \/ StatusPoll
    \/ ReadCall
    \/ ReadEvent

SpecDecode == InitDecode /\ [][NextDecode]_vars

\* the table of the console's key decoding, as a sequence of zero or one byte
TableByte(event) ==
    IF event.kind # "Key" THEN << >>
    ELSE IF event.code = "Char"
    THEN IF event.modifiers \in {{}, {"SHIFT"}}
         THEN (IF event.c \in 32..126 THEN <<event.c>> ELSE << >>)
         ELSE IF event.modifiers = {"CONTROL"}
         THEN (IF event.c \in 96..126 THEN <<event.c - 96>> ELSE << >>)
         ELSE << >>
    ELSE IF event.code = "Backspace" THEN <<127>>
    ELSE IF event.code = "Enter" THEN <<13>>
    ELSE IF event.code = "Left" THEN <<8>>
    ELSE IF event.code = "Right" THEN <<12>>
    ELSE IF event.code = "Up" THEN <<11>>
    ELSE IF event.code = "Down" THEN <<10>>
    ELSE IF event.code = "Home" THEN <<30>>
    ELSE IF event.code = "Tab" THEN <<9>>
    ELSE IF event.code = "Esc" THEN <<27>>
    ELSE << >>

(***************************************************************************)
(* C13: event_to_chat follows the table: a Char key with no modifier or    *)
(* shift only gives its code when ' ' <= c <= '~'; with exactly control it *)
(* gives code(c) - code('`') when '`' <= c <= '~', a byte in 0..0x1E;      *)
(* Backspace 127, Enter 13, Left 8, Right 12, Up 11, Down 10, Home 30,     *)
(* Tab 9, Escape 27; every other key, every other modifier combination on  *)
(* a Char key and every non-keyboard event gives no byte.                  *)
(***************************************************************************)
C13_DecodeTable ==
    /\ \A i \in 1..Len(consumed) :
          /\ EventToChat(consumed[i]) = TableByte(consumed[i])
          /\ (consumed[i].kind = "Key" /\ consumed[i].code = "Char"
              /\ consumed[i].modifiers = {"CONTROL"})
                => \A b \in 1..Len(EventToChat(consumed[i])) :
                      EventToChat(consumed[i])[b] \in 0..30
    /\ Len(consumed) = 1 => returned \o next_char = TableByte(consumed[1])

\* control-'~' was read as 0x1E
C13_Witness ==
    /\ consumed = <<KeyEvent("Char", 126, {"CONTROL"})>>
    /\ returned = <<30>> /\ last.op = "read"

\* the thread that called status() keeps running its loop
SpecConsoleFair == SpecConsole /\ WF_vars(StatusPoll)

(***************************************************************************)
(* C14: status() never blocks on undecodable input.  With finitely many    *)
(* events pending it returns; the events it takes are undecodable ones,    *)
(* each discarded at once, up to and including the first decodable one;    *)
(* and it returns false only when a poll found nothing pending.            *)
(***************************************************************************)
C14_StatusTerminates ==
    /\ (cpc = "status") ~> (cpc = "idle")
    /\ [][(cpc = "status" /\ cpc' = "idle")
           => IF last'.ret = 0
              THEN queue = << >> /\ next_char' = None
                   /\ UNCHANGED <<queue, consumed>>
              ELSE /\ queue # << >> /\ EventToChat(Head(queue)) # None
                   /\ consumed' = Append(consumed, Head(queue))
                   /\ next_char' = EventToChat(Head(queue))]_vars
    /\ [][(cpc = "status" /\ cpc' = "status" /\ consumed' # consumed)
           => /\ EventToChat(Head(queue)) = None
              /\ consumed' = Append(consumed, Head(queue))
              /\ queue' = Tail(queue)]_vars

\* status() discarded F1 and a resize and returned false on the empty queue
C14_Witness ==
    /\ last.op = "status" /\ last.name = "timeout" /\ cpc = "idle"
    /\ consumed = <<KeyEvent("F1", 0, {}), OtherEvent("Resize")>>
    /\ queue = << >> /\ next_char = None /\ returned = << >>

(***************************************************************************)
(* C18: the pending buffer holds at most one byte.  status() with a byte   *)
(* buffered returns true without polling or taking a host event and leaves *)
(* the buffer as it is; status() returns true exactly when a byte is       *)
(* buffered as it returns; read() with a byte buffered returns that byte,  *)
(* empties the buffer and takes no host event.                             *)
(***************************************************************************)
C18_PendingBuffer ==
    [][arrived' = arrived
        => /\ Len(next_char') <= 1
           /\ (cpc = "idle" /\ last'.op = "status" /\ next_char # None)
                => /\ last'.ret = 1 /\ cpc' = "idle"
                   /\ UNCHANGED <<next_char, queue, consumed, returned>>
           /\ (last'.op = "status" /\ cpc' = "idle")
                => (last'.ret = 1 <=> next_char' # None)
           /\ (cpc = "idle" /\ last'.op = "read" /\ next_char # None)
                => /\ last'.ret = next_char[1] /\ cpc' = "idle"
                   /\ next_char' = None
                   /\ returned' = Append(returned, next_char[1])
                   /\ UNCHANGED <<queue, consumed>>]_vars

\* status() buffered control-'a', then read() returned it with the next
\* event still pending
C18_Witness ==
    /\ last.op = "read" /\ last.name = "buffered" /\ last.prev = "status"
    /\ next_char = None /\ returned = <<1>>
    /\ consumed = <<KeyEvent("Char", 97, {"CONTROL"})>>
    /\ queue = <<KeyEvent("Enter", 0, {})>>

(***************************************************************************)
(* C15: for an image file of any size, exactly the first                   *)
(* min(size, 65536 - TPA_BASE_ADDRESS) bytes are written, byte i at        *)
(* TPA_BASE_ADDRESS + i; no address written is above 0xFFFF or wraps, and  *)
(* a file larger than the transient area makes no failure.                 *)
(***************************************************************************)
C15_ImageFitsMemory ==
    /\ (phase = "io_abort" /\ file # None) => ~file[1].exists
    /\ (last.op = "load" /\ phase = "loaded" /\ file # None)
         => LET f == file[1]
                n == IF f.size < 65536 - TPA_BASE_ADDRESS THEN f.size
                     ELSE 65536 - TPA_BASE_ADDRESS
            IN  /\ binary.address = TPA_BASE_ADDRESS /\ binary.size = n
                /\ binary.address + binary.size - 1 <= 65535
                /\ \A i \in 0..(n - 1) :
                      Peek(TPA_BASE_ADDRESS + i) = ImageByte(f.fill, i)
                /\ \A a \in 0..65535 :
                      (a < TPA_BASE_ADDRESS \/ a >= TPA_BASE_ADDRESS + n)
                         => Peek(a) = 0

\* a file of 65281 bytes: 65280 are loaded, the last ones at 0xFFFE, 0xFFFF
C15_Witness ==
    /\ last.op = "load" /\ phase = "loaded"
    /\ file = Some([exists |-> TRUE, size |-> 65281, fill |-> 1])
    /\ binary.size = 65280 /\ Peek(65534) = 255 /\ Peek(65535) = 0
    /\ Peek(255) = 0

(***************************************************************************)
(* C16: get_reg16(HL) and set_reg16(HL, v) read and write, as one 16-bit   *)
(* value, whichever of HL, IX and IY the context selects; for every other  *)
(* pair they act on that pair whatever the context.                        *)
(***************************************************************************)
C16_PairFollowsContext ==
    [][(steps' = steps + 1 /\ last'.op \in {"get_reg16", "set_reg16"})
        => LET rr == last'.name
               t == IF rr = "HL" THEN index ELSE rr
           IN  /\ last'.op = "get_reg16"
                    => /\ last'.ret = IF t = "SP" THEN sp
                                      ELSE reg[High(t)] * 256 + reg[Low(t)]
                       /\ UNCHANGED <<reg, sp, mem, index, displacement>>
               /\ (last'.op = "set_reg16" /\ t # "SP")
                    => /\ reg'[High(t)] * 256 + reg'[Low(t)] = last'.arg
                       /\ \A c \in Reg8 \ {High(t), Low(t)} : reg'[c] = reg[c]
                       /\ UNCHANGED <<sp, mem, index, displacement>>
               /\ (last'.op = "set_reg16" /\ t = "SP")
                    => /\ sp' = last'.arg
                       /\ UNCHANGED <<reg, mem, index, displacement>>]_vars

\* under IY, set_reg16(HL, 0xFFFF) then get_reg16(HL): IY holds the value,
\* H and L hold what they held
C16_Witness ==
    /\ last.op = "get_reg16" /\ last.name = "HL" /\ last.prev = "set_reg16"
    /\ index = "IY" /\ last.ret = 65535
    /\ reg["IYH"] = 255 /\ reg["IYL"] = 255
    /\ reg["H"] = 18 /\ reg["L"] = 52

(***************************************************************************)
(* C17: a step whose instruction leaves the program counter at             *)
(* BDOS_BASE_ADDRESS - 1, the CPU not halted and the BIOS not reporting    *)
(* exit, aborts the loop, and nothing is executed after the abort; the     *)
(* guard goes by the program counter captured before the handlers ran,     *)
(* whatever they made of the program counter on that step.                 *)
(***************************************************************************)
C17_GuardOnCapturedPc ==
    [][/\ (steps' = steps + 1 /\ last'.op = "step"
           /\ pc_seen' = BDOS_BASE_ADDRESS - 1
           /\ ~halted' /\ "exit" \notin served')
             => phase' = "guard_abort"
       /\ (steps' = steps + 1 /\ last'.op = "step" /\ phase' = "guard_abort")
             => pc_seen' = BDOS_BASE_ADDRESS - 1
       /\ phase = "guard_abort" => UNCHANGED vars]_vars

\* a jump to BDOS_BASE_ADDRESS - 1 ended the run
C17_Witness ==
    /\ last.op = "step" /\ last.name = "jp"
    /\ last.arg = BDOS_BASE_ADDRESS - 1 /\ pc_seen = BDOS_BASE_ADDRESS - 1
    /\ pc = BDOS_BASE_ADDRESS - 1 /\ phase = "guard_abort" /\ served = {}

\* the ways the process ends: break out of the loop, and the three panics
Ended == phase \in {"terminated", "halt_abort", "guard_abort", "io_abort"}

(***************************************************************************)
(* C19: the raw terminal input mode enabled when the Console is            *)
(* constructed is restored on every exit path: once the process has ended, *)
(* normally or by an abort, raw mode is disabled.                          *)
(***************************************************************************)
C19_RawModeRestored == Ended => ~raw_mode
\* the name bytes of the two file control blocks
FcbNameBytes ==
    (FCB1_ADDRESS + 1)..(FCB1_ADDRESS + 11)
    \cup (FCB2_ADDRESS + 1)..(FCB2_ADDRESS + 11)

(***************************************************************************)
(* C20: whatever the length of the command tail, the count and the         *)
(* characters are written inside SYSTEM_PARAMS_ADDRESS ..                  *)
(* SYSTEM_PARAMS_ADDRESS + 127 and nowhere at or above                     *)
(* SYSTEM_PARAMS_ADDRESS + 128, each character written is a character of   *)
(* the tail (none is read past its end), and with no tail the only write   *)
(* is a zero count at SYSTEM_PARAMS_ADDRESS.                               *)
(***************************************************************************)
C20_TailStaysInBuffer ==
    last.op = "params"
        => /\ DOMAIN mem \ FcbNameBytes
                \subseteq SYSTEM_PARAMS_ADDRESS..(SYSTEM_PARAMS_ADDRESS + 127)
           /\ params = None
                => DOMAIN mem = {SYSTEM_PARAMS_ADDRESS}
                   /\ mem[SYSTEM_PARAMS_ADDRESS] = 0
           /\ params # None
                => \A a \in DOMAIN mem \ FcbNameBytes :
                      a # SYSTEM_PARAMS_ADDRESS
                        => /\ a - SYSTEM_PARAMS_ADDRESS - 1 \in 1..Len(params[1])
                           /\ mem[a] = params[1][a - SYSTEM_PARAMS_ADDRESS - 1]

\* a tail of 127 characters: the 126th is written at the last address of
\* the buffer, the 127th is not written
C20_Witness ==
    /\ last.op = "params" /\ params = Some(LongTail(127))
    /\ SYSTEM_PARAMS_ADDRESS + 127 \in DOMAIN mem
    /\ mem[SYSTEM_PARAMS_ADDRESS + 127] = LongTail(127)[126]
    /\ SYSTEM_PARAMS_ADDRESS + 128 \notin DOMAIN mem

====
